---- MODULE Spec2Model ----
(***************************************************************************)
(* The jQuery accordion plugin of src/jquery.accordion.js as a state       *)
(* machine.  The page is a fixed, flat set of accordion containers, each   *)
(* with its trigger and content elements.  The state is what the plugin    *)
(* leaves on those elements: the state value stored with .data(), the      *)
(* marker classes, the click handlers bound to each trigger, the render    *)
(* calls issued to each content element and the animation they started.    *)
(* A click is dispatched to the handlers bound to the trigger one after    *)
(* the other; nothing else runs while a dispatch is in progress.  The page *)
(* first executes the script, which registers the plugin.                  *)
(* Before the first accordion() call the markup carries no state attribute *)
(* and no marker class; containers are not nested; state values are        *)
(* non-empty strings; content elements are shown until a render call      *)
(* hides them.                                                             *)
(***************************************************************************)
EXTENDS Naturals, Sequences, FiniteSets

\* Bounds of the exploration.
MaxInits == 2
MaxActivations == 3
MaxScripts == 2

(***************************************************************************)
(* The page.  c1 has two triggers and two content elements, c2 one trigger *)
(* and no content, c3 one content element and no trigger.                  *)
(***************************************************************************)
Containers == {"c1", "c2", "c3"}
Triggers == {"t1", "t2", "t3"}
Contents == {"k1", "k2", "k3"}

\* The container an element of the page sits in.
ContainerOf(e) ==
    CASE e \in {"c1", "t1", "t2", "k1", "k2"} -> "c1"
      [] e \in {"c2", "t3"} -> "c2"
      [] e \in {"c3", "k3"} -> "c3"

\* What JavaScript yields for a missing property or a missing data entry.
Undefined == "undefined"
\* The outcome of a call that threw.
Threw == "threw"

\* JavaScript truthiness of a string-or-undefined value, as !!state tests it.
Truthy(v) == v \notin {Undefined, ""}

(***************************************************************************)
(* Configurations.  config.states maps the keys 'visible' and 'collapsed'  *)
(* to state values and the key 'default' to the KEY of the default state.  *)
(***************************************************************************)
StateKeys == {"visible", "collapsed"}
DefaultKeys == {"visible", "collapsed", "default", "bogus"}

\* The state map of the source with every default key.
SourceStateConfigs ==
    [visible : {"visible"}, collapsed : {"collapsed"}, default : DefaultKeys]

\* State maps whose values may differ from their keys as well.
AnyStateConfigs ==
    [visible : {"visible", "v"}, collapsed : {"collapsed", "c"}, default : DefaultKeys]

\* The configuration as written in the source.
SourceConfig == [visible |-> "visible", collapsed |-> "collapsed", default |-> "collapsed"]

VARIABLES
    config,          \* the configuration the plugin was built with
    data,            \* container -> value stored under the state key, or Undefined
    collapsedClass,  \* container -> carries is-accordion--collapsed
    accordionClass,  \* container -> carries is-accordion
    triggerClass,    \* trigger -> carries is-accordion-trigger
    contentClass,    \* content -> carries is-accordion-content
    handlers,        \* trigger -> number of click handlers bound to it
    rendered,        \* content -> the last render call issued to it
    anim,            \* content -> the animation in flight on it
    queued,          \* content -> render calls waiting behind that animation
    display,         \* content -> shown (TRUE) or hidden, as last settled
    seen,            \* content -> its container's state and class at its last render call
    ev,              \* the click event being (or last) dispatched
    inits,           \* number of accordion() calls so far
    booted,          \* the document-ready bootstrap has run
    lastInit,        \* record of the accordion() call made since the last click
    hist,            \* container -> snapshots taken before its last handler runs
    activations,     \* container -> handler runs since its last initialization
    start,           \* container -> state value its last initialization left
    jq,              \* window.jQuery is a function
    plugin,          \* what jQuery.fn.accordion is: "none", "accordion" (this plugin), "other"
    scripts,         \* script tags of this file the page has yet to execute
    lastLoad         \* outcome of the last execution of the script

domVars == <<data, collapsedClass, accordionClass, triggerClass, contentClass, handlers>>
fxVars == <<rendered, anim, queued, display, seen>>
obsVars == <<lastInit, hist, activations, start>>
loadVars == <<jq, plugin, scripts, lastLoad>>
vars == <<config, domVars, fxVars, ev, inits, booted, obsVars, loadVars>>

RenderCalls == {"none", "show(0)", "hide(0)", "slideDown", "slideUp"}
Animations == {"none", "slideDown", "slideUp"}

\* The event record: target is the trigger clicked, remaining the handlers yet
\* to run, state what getState returned to the last handler run; pre (the
\* container's state when the click came) and inflight (an animation was in
\* flight when the last handler ran) are kept for the properties.
NoEvent ==
    [target |-> "none", remaining |-> 0, defaultPrevented |-> FALSE, state |-> "none",
     pre |-> "none", inflight |-> FALSE]
NoInit == [batch |-> {}, threw |-> FALSE, pre |-> [c \in Containers |-> Undefined],
           was |-> [c \in Containers |-> FALSE]]

----
\* config.states[key]
StateOf(key) ==
    CASE key = "visible" -> config.visible
      [] key = "collapsed" -> config.collapsed
      [] key = "default" -> config.default
      [] OTHER -> Undefined

\* getTrigger keeping the first match of each container only.
getTriggerFirst(elements) == {t \in {"t1", "t3"} : ContainerOf(t) \in elements}

getTrigger(elements) == {t \in Triggers : ContainerOf(t) \in elements}

\* getContent keeping the first match of each container only.
getContentFirst(elements) == {k \in {"k1", "k3"} : ContainerOf(k) \in elements}

\* getContent with a selector that is not scoped to the given elements.
getContentAll(elements) == Contents

getContent(elements) == {k \in Contents : ContainerOf(k) \in elements}

\* getDefaultState handing on what the lookup gave instead of throwing.
getDefaultStateNoThrow == StateOf(config.default)

getDefaultState ==
    LET state == StateOf(config.default)
    IN  IF ~Truthy(state) THEN Threw ELSE state

\* getState without the lookup of the stored value.
getStateDefaultOnly(element) == getDefaultState

getState(element) ==
    LET state == data[element]
    IN  IF Truthy(state) THEN state ELSE getDefaultState

\* getElement selecting the first container of the page, not the closest one.
getElementFirst(elem) == "c1"

getElement(elem) == ContainerOf(elem)

isCollapsed(state) == state = config.collapsed

isVisible(state) == state = config.visible

\* The render call setVisible / setCollapsed issues to the content elements.
\* (showCallInstant, hideCallAnimated: the `initial` flag ignored.)
showCallInstant(initial) == "show(0)"

hideCallAnimated(initial) == "slideUp"

showCall(initial) == IF initial THEN "show(0)" ELSE "slideDown"

hideCall(initial) == IF initial THEN "hide(0)" ELSE "slideUp"

(***************************************************************************)
(* The effects queue of a content element, as the render calls drive it.   *)
(* slideDown('fast') and slideUp('fast') take time; show(0) and hide(0)    *)
(* take none but wait, like every call, behind an animation in flight.     *)
(***************************************************************************)
Shows(call) == call \in {"show(0)", "slideDown"}

Timed(call) == call \in {"slideDown", "slideUp"}

Fx(k) == [anim |-> anim[k], queued |-> queued[k], display |-> display[k]]

\* With no animation in flight the waiting calls start in order: an instant
\* one settles the display at once, a timed one becomes the animation in flight.
RECURSIVE drain(_)
drain(f) ==
    IF f.anim # "none" \/ f.queued = <<>> THEN f
    ELSE LET call == Head(f.queued)
         IN  IF Timed(call)
               THEN [anim |-> call, queued |-> Tail(f.queued), display |-> f.display]
               ELSE drain([anim |-> "none", queued |-> Tail(f.queued), display |-> Shows(call)])

\* .stop(): the animation in flight is dropped where it is; waiting calls go on.
stop(f) == drain([f EXCEPT !.anim = "none"])

\* .show(0) / .hide(0) / .slideDown('fast') / .slideUp('fast')
issue(f, call) == drain([f EXCEPT !.queued = Append(@, call)])

\* The animation in flight runs to its end.
finish(f) == drain([f EXCEPT !.display = Shows(f.anim), !.anim = "none"])

\* The animated branches without their .stop().
cancelNothing(f, call) == f

\* The .stop() the animated branches call before their slide.
cancel(f, call) == IF Timed(call) THEN stop(f) ELSE f

\* The render call issued before the writes of state and class.
observeBefore(c) == [state |-> data[c], collapsed |-> collapsedClass[c]]

\* What container c holds when the render call is issued: setVisible and
\* setCollapsed have written the state and the class by then.
observe(c) == [state |-> data'[c], collapsed |-> collapsedClass'[c]]

render(targets, call) ==
    LET after == [k \in Contents |->
                    IF k \in targets THEN issue(cancel(Fx(k), call), call) ELSE Fx(k)]
    IN  /\ rendered' = [k \in Contents |-> IF k \in targets THEN call ELSE rendered[k]]
        /\ anim' = [k \in Contents |-> after[k].anim]
        /\ queued' = [k \in Contents |-> after[k].queued]
        /\ display' = [k \in Contents |-> after[k].display]
        /\ seen' = [k \in Contents |->
                      IF k \in targets THEN observe(ContainerOf(k)) ELSE seen[k]]

\* setVisible leaving the collapsed class in place.
setVisibleKeepClass(elements, initial) ==
    /\ data' = [c \in Containers |-> IF c \in elements THEN config.visible ELSE data[c]]
    /\ UNCHANGED collapsedClass
    /\ render(getContent(elements), showCall(initial))

setVisible(elements, initial) ==
    /\ data' = [c \in Containers |-> IF c \in elements THEN config.visible ELSE data[c]]
    /\ collapsedClass' = [c \in Containers |-> IF c \in elements THEN FALSE ELSE collapsedClass[c]]
    /\ render(getContent(elements), showCall(initial))

\* setCollapsed without the write of the state value.
setCollapsedNoData(elements, initial) ==
    /\ UNCHANGED data
    /\ collapsedClass' = [c \in Containers |-> IF c \in elements THEN TRUE ELSE collapsedClass[c]]
    /\ render(getContent(elements), hideCall(initial))

\* setCollapsed without the class.
setCollapsedNoClass(elements, initial) ==
    /\ data' = [c \in Containers |-> IF c \in elements THEN config.collapsed ELSE data[c]]
    /\ UNCHANGED collapsedClass
    /\ render(getContent(elements), hideCall(initial))

setCollapsed(elements, initial) ==
    /\ data' = [c \in Containers |-> IF c \in elements THEN config.collapsed ELSE data[c]]
    /\ collapsedClass' = [c \in Containers |-> IF c \in elements THEN TRUE ELSE collapsedClass[c]]
    /\ render(getContent(elements), hideCall(initial))

\* setDefault sparing the containers that already hold a state.
setDefaultFresh(elements) ==
    LET state == config.default
        fresh == {c \in elements : ~Truthy(data[c])}
    IN  IF isCollapsed(state) THEN setCollapsed(fresh, TRUE)
        ELSE IF isVisible(state) THEN setVisible(fresh, TRUE)
        ELSE UNCHANGED <<data, collapsedClass, fxVars>>

setDefault(elements) ==
    LET state == config.default
    IN  IF isCollapsed(state) THEN setCollapsed(elements, TRUE)
        ELSE IF isVisible(state) THEN setVisible(elements, TRUE)
        ELSE UNCHANGED <<data, collapsedClass, fxVars>>

\* Whether the body of accordion() throws: no statement of it does.
initThrows == FALSE

\* $(...).accordion() on the containers of batch.
accordion(batch) ==
    /\ plugin = "accordion"
    /\ ev.remaining = 0
    /\ inits < MaxInits
    /\ setDefault(batch)
    /\ accordionClass' = [c \in Containers |-> accordionClass[c] \/ c \in batch]
    /\ contentClass' = [k \in Contents |-> contentClass[k] \/ k \in getContent(batch)]
    /\ triggerClass' = [t \in Triggers |-> triggerClass[t] \/ t \in getTrigger(batch)]
    /\ handlers' = [t \in Triggers |->
                      IF t \in getTrigger(batch) THEN handlers[t] + 1 ELSE handlers[t]]
    /\ inits' = inits + 1
    /\ lastInit' = [batch |-> batch, threw |-> initThrows, pre |-> data, was |-> accordionClass]
    /\ hist' = [c \in Containers |-> IF c \in batch THEN <<>> ELSE hist[c]]
    /\ activations' = [c \in Containers |-> IF c \in batch THEN 0 ELSE activations[c]]
    /\ start' = [c \in Containers |-> IF c \in batch THEN data'[c] ELSE start[c]]
    /\ UNCHANGED <<config, ev, loadVars>>

\* The document-ready callback: every container of the page.
Bootstrap ==
    /\ ~booted
    /\ booted' = TRUE
    /\ accordion(Containers)

\* A call of the plugin by page code, on any selection of containers.
Reinit ==
    /\ \E batch \in (SUBSET Containers) \ {{}} : accordion(batch)
    /\ UNCHANGED booted

\* The handler without its first statement.
preventDefaultMissing(e) == e

\* ev.preventDefault()
preventDefault(e) == [e EXCEPT !.defaultPrevented = TRUE]

\* jQuery's treatment of a handler's `return false`.
returnFalse(e) == [e EXCEPT !.defaultPrevented = TRUE]

\* The user clicks trigger t: the event is handed to each handler bound to t.
Click(t) ==
    /\ ev.remaining = 0
    /\ handlers[t] > 0
    /\ activations[getElement(t)] + handlers[t] <= MaxActivations
    /\ ev' = [target |-> t, remaining |-> handlers[t], defaultPrevented |-> FALSE,
              state |-> "none", pre |-> data[ContainerOf(t)], inflight |-> FALSE]
    /\ lastInit' = NoInit
    /\ UNCHANGED <<config, domVars, fxVars, inits, booted, hist, activations, start, loadVars>>

Snapshot(c) == [state |-> data[c], collapsed |-> collapsedClass[c]]

\* An animation is in flight on a content element of container c.
Animating(c) == \E k \in Contents : ContainerOf(k) = c /\ anim[k] # "none"

\* The handler's branch on the state read, held back while an animation runs.
toggleWhenSettled(parent, state) ==
    IF \E k \in getContent({parent}) : anim[k] # "none"
      THEN UNCHANGED <<data, collapsedClass, fxVars>>
      ELSE IF isCollapsed(state) THEN setVisible({parent}, FALSE)
      ELSE IF isVisible(state) THEN setCollapsed({parent}, FALSE)
      ELSE UNCHANGED <<data, collapsedClass, fxVars>>

\* The handler's branch on the state read.
toggle(parent, state) ==
    IF isCollapsed(state) THEN setVisible({parent}, FALSE)
    ELSE IF isVisible(state) THEN setCollapsed({parent}, FALSE)
    ELSE UNCHANGED <<data, collapsedClass, fxVars>>

\* One run of the click handler for the event being dispatched.
Handler ==
    /\ ev.remaining > 0
    /\ LET e1 == [preventDefault(ev) EXCEPT !.inflight = Animating(ContainerOf(ev.target))]
           parent == getElement(ev.target)
           state == getState(parent)
       IN  /\ IF state = Threw
                THEN /\ ev' = [e1 EXCEPT !.state = state, !.remaining = 0]
                     /\ UNCHANGED <<data, collapsedClass, fxVars>>
                ELSE /\ ev' = [returnFalse(e1) EXCEPT !.state = state,
                                                      !.remaining = ev.remaining - 1]
                     /\ toggle(parent, state)
           /\ hist' = [hist EXCEPT ![parent] =
                          IF Len(@) < 2 THEN Append(@, Snapshot(parent))
                          ELSE <<@[2], Snapshot(parent)>>]
           /\ activations' = [activations EXCEPT ![parent] = @ + 1]
    /\ UNCHANGED <<config, accordionClass, triggerClass, contentClass, handlers,
                   inits, booted, lastInit, start, loadVars>>

\* The rendering library finishes the animation in flight on content k.
AnimationDone(k) ==
    /\ ev.remaining = 0
    /\ anim[k] # "none"
    /\ LET f == finish(Fx(k))
       IN  /\ anim' = [anim EXCEPT ![k] = f.anim]
           /\ queued' = [queued EXCEPT ![k] = f.queued]
           /\ display' = [display EXCEPT ![k] = f.display]
    /\ UNCHANGED <<config, domVars, rendered, seen, ev, inits, booted, obsVars, loadVars>>

\* The guard on the plugin name, never finding it taken.
nameTakenNever == FALSE

\* typeof window.jQuery.fn.accordion === 'function'
nameTaken == plugin # "none"

\* The page executes the script: it throws without jQuery or with the plugin
\* name taken, and registers the plugin and its document-ready callback
\* otherwise.
LoadScript ==
    /\ scripts > 0
    /\ ev.remaining = 0
    /\ scripts' = scripts - 1
    /\ IF ~jq THEN lastLoad' = "threw" /\ UNCHANGED plugin
       ELSE IF nameTaken THEN lastLoad' = "threw" /\ UNCHANGED plugin
       ELSE lastLoad' = "registered" /\ plugin' = "accordion"
    /\ UNCHANGED <<config, domVars, fxVars, ev, inits, booted, obsVars, jq>>

\* A page with jQuery, the plugin name free and one script tag of this file.
PlainPage ==
    /\ jq = TRUE
    /\ plugin = "none"
    /\ scripts = 1
    /\ lastLoad = "none"

\* Pages with or without jQuery, with the plugin name free or taken by
\* another plugin, and with one or more script tags of this file.
AnyPage ==
    /\ jq \in BOOLEAN
    /\ plugin \in (IF jq THEN {"none", "other"} ELSE {"none"})
    /\ scripts \in 1..MaxScripts
    /\ lastLoad = "none"

InitWith(configs) ==
    /\ config \in configs
    /\ data = [c \in Containers |-> Undefined]
    /\ collapsedClass = [c \in Containers |-> FALSE]
    /\ accordionClass = [c \in Containers |-> FALSE]
    /\ triggerClass = [t \in Triggers |-> FALSE]
    /\ contentClass = [k \in Contents |-> FALSE]
    /\ handlers = [t \in Triggers |-> 0]
    /\ rendered = [k \in Contents |-> "none"]
    /\ anim = [k \in Contents |-> "none"]
    /\ queued = [k \in Contents |-> <<>>]
    /\ display = [k \in Contents |-> TRUE]
    /\ seen = [k \in Contents |-> [state |-> Undefined, collapsed |-> FALSE]]
    /\ ev = NoEvent
    /\ inits = 0
    /\ booted = FALSE
    /\ lastInit = NoInit
    /\ hist = [c \in Containers |-> <<>>]
    /\ activations = [c \in Containers |-> 0]
    /\ start = [c \in Containers |-> Undefined]

Init == InitWith(SourceStateConfigs) /\ PlainPage

InitAnyStates == InitWith(AnyStateConfigs) /\ PlainPage

InitAnyPage == InitWith({SourceConfig}) /\ AnyPage

Next ==
    \/ LoadScript
    \/ Bootstrap
    \/ Reinit
    \/ \E t \in Triggers : Click(t)
    \/ Handler
    \/ \E k \in Contents : AnimationDone(k)

\* The source's state map, with every default key.
Spec == Init /\ [][Next]_vars

\* State maps whose values differ from their keys as well.
SpecAnyStates == InitAnyStates /\ [][Next]_vars

\* The source's configuration on every kind of page.
SpecAnyPage == InitAnyPage /\ [][Next]_vars

----
(***************************************************************************)
(* Properties.  In the formulas the two states of a container are the      *)
(* values config.visible and config.collapsed; one activation is one run   *)
(* of the click handler (the step Handler, taken while ev.remaining > 0).  *)
(***************************************************************************)

\* The contents of container c.
ContentsOf(c) == {k \in Contents : ContainerOf(k) = c}

\* The snapshot taken before the most recent handler run on container c.
LastSnapshot(c) == hist[c][Len(hist[c])]

\* C1: one activation of a trigger moves its container from Collapsed to
\* Visible and requests the animated show (slideDown) of its content, and
\* from Visible to Collapsed with the animated hide (slideUp); the step has no
\* other outcome from these two states.
C1_ActivationToggles ==
    [][ev.remaining > 0 =>
        LET p == ContainerOf(ev.target)
        IN  /\ data[p] = config.collapsed =>
                 /\ data'[p] = config.visible
                 /\ ~collapsedClass'[p]
                 /\ \A k \in ContentsOf(p) : rendered'[k] = "slideDown"
            /\ data[p] = config.visible =>
                 /\ data'[p] = config.collapsed
                 /\ collapsedClass'[p]
                 /\ \A k \in ContentsOf(p) : rendered'[k] = "slideUp"]_vars

\* C1 witness: c1 went Collapsed -> Visible -> Collapsed by two activations,
\* the last of which requested the animated hide.
C1_Witness ==
    /\ accordionClass["c1"]
    /\ Len(hist["c1"]) = 2
    /\ hist["c1"][1].state = config.collapsed
    /\ hist["c1"][2].state = config.visible
    /\ data["c1"] = config.collapsed
    /\ rendered["k1"] = "slideUp"

\* C2 as stated: after N activations from a known starting state the state is
\* Collapsed for even N and Visible for odd N.
C2_ParityFromAnyStart ==
    \A c \in Containers :
        start[c] \in {config.visible, config.collapsed} =>
            data[c] = IF activations[c] % 2 = 0 THEN config.collapsed ELSE config.visible

\* The other one of the two states.
Opposite(s) == IF s = config.visible THEN config.collapsed ELSE config.visible

\* C2 amended: after N activations from a known starting state (Collapsed or
\* Visible) the state is the starting state for even N and the opposite state
\* for odd N, whatever animations are in flight or completed.
C2_ParityFromStart ==
    \A c \in Containers :
        start[c] \in {config.visible, config.collapsed} =>
            data[c] = IF activations[c] % 2 = 0 THEN start[c] ELSE Opposite(start[c])

\* C2 witness: three activations of c1 from Visible, with the animation of one
\* content element still in flight and that of the other completed.
C2_Witness ==
    /\ start["c1"] = config.visible
    /\ activations["c1"] = 3
    /\ data["c1"] = config.collapsed
    /\ anim["k1"] # "none"
    /\ anim["k2"] = "none"

\* C3: two activations in succession return the container's state and its
\* collapsed class to what they were before the first, from either state.
C3_ToggleTwiceIsIdentity ==
    \A c \in Containers :
        (Len(hist[c]) = 2 /\ hist[c][1].state \in {config.visible, config.collapsed}) =>
            /\ data[c] = hist[c][1].state
            /\ collapsedClass[c] = hist[c][1].collapsed

\* C3 witness: two successive activations of c1 that began in Visible and two
\* of c2 that began in Collapsed.
C3_Witness ==
    /\ Len(hist["c1"]) = 2
    /\ hist["c1"][1].state = config.visible
    /\ ~hist["c1"][1].collapsed
    /\ Len(hist["c2"]) = 2
    /\ hist["c2"][1].state = config.collapsed
    /\ hist["c2"][1].collapsed

\* An accordion() call is the step that advances inits; its batch is
\* lastInit'.batch.  The value and the render call of a valid default key:
DefaultValue == IF config.default = "collapsed" THEN config.collapsed ELSE config.visible

DefaultCall == IF config.default = "collapsed" THEN "hide(0)" ELSE "show(0)"

\* C4: initialization of a container with no persisted state persists the
\* value of the configured default key, gives it is-accordion--collapsed iff
\* that default is collapsed, and issues the matching instant render call.
C4_InitAppliesDefault ==
    [][inits' # inits =>
        \A c \in lastInit'.batch :
            (data[c] = Undefined /\ config.default \in StateKeys) =>
                /\ data'[c] = DefaultValue
                /\ collapsedClass'[c] <=> (config.default = "collapsed")
                /\ \A k \in ContentsOf(c) : rendered'[k] = DefaultCall]_vars

\* C4 witness: with the source configuration, c1 was initialized from no
\* persisted state and is collapsed, its content hidden by hide(0).
C4_Witness ==
    /\ config = SourceConfig
    /\ "c1" \in lastInit.batch
    /\ lastInit.pre["c1"] = Undefined
    /\ data["c1"] = "collapsed"
    /\ collapsedClass["c1"]
    /\ rendered["k1"] = "hide(0)"
    /\ anim["k1"] = "none"

\* C5: initialization run again on an initialized container resets its state
\* and collapsed class to the configured default, whatever state it was in,
\* and issues the default's instant render call again.
C5_ReinitResetsToDefault ==
    [][inits' # inits =>
        \A c \in lastInit'.batch :
            (accordionClass[c] /\ config.default \in StateKeys) =>
                /\ data'[c] = DefaultValue
                /\ collapsedClass'[c] <=> (config.default = "collapsed")
                /\ activations'[c] = 0
                /\ \A k \in ContentsOf(c) : rendered'[k] = DefaultCall]_vars

\* C5 witness: c1, initialized before and toggled to Visible, was initialized
\* again and is back at the default Collapsed with hide(0) issued.
C5_Witness ==
    /\ config = SourceConfig
    /\ "c1" \in lastInit.batch
    /\ lastInit.was["c1"]
    /\ lastInit.pre["c1"] = "visible"
    /\ data["c1"] = "collapsed"
    /\ collapsedClass["c1"]
    /\ rendered["k1"] = "hide(0)"

\* Container c has been through accordion(): it was in the last batch, or one
\* of its elements carries what accordion() leaves on it.
Initialized(c) ==
    \/ c \in lastInit.batch
    \/ \E t \in Triggers : ContainerOf(t) = c /\ (handlers[t] > 0 \/ triggerClass[t])
    \/ \E k \in Contents : ContainerOf(k) = c /\ contentClass[k]

\* C6: every initialized container carries is-accordion, and carries
\* is-accordion--collapsed iff its persisted state is collapsed.
C6_ClassesFollowState ==
    \A c \in Containers :
        Initialized(c) =>
            /\ accordionClass[c]
            /\ collapsedClass[c] <=> (data[c] = config.collapsed)

\* C6 witness: after two initializations and activations since, c1 is
\* collapsed with the class and c2 visible without it.
C6_Witness ==
    /\ inits = 2
    /\ activations["c1"] = 2
    /\ data["c1"] = config.collapsed /\ collapsedClass["c1"]
    /\ activations["c2"] = 1
    /\ data["c2"] = config.visible /\ ~collapsedClass["c2"]

\* C7: an activation on one container leaves the persisted state and the
\* marker classes of every other container unchanged.
C7_OtherContainersUntouched ==
    [][ev.remaining > 0 =>
        /\ \A c \in Containers \ {ContainerOf(ev.target)} :
              /\ data'[c] = data[c]
              /\ collapsedClass'[c] = collapsedClass[c]
              /\ accordionClass'[c] = accordionClass[c]
        /\ \A t \in Triggers : ContainerOf(t) # ContainerOf(ev.target) =>
              triggerClass'[t] = triggerClass[t]
        /\ \A k \in Contents : ContainerOf(k) # ContainerOf(ev.target) =>
              contentClass'[k] = contentClass[k]]_vars

\* C7 witness: all three containers initialized, a trigger of c2 activated
\* once, c1 and c3 still as initialization left them.
C7_Witness ==
    /\ \A c \in Containers : accordionClass[c]
    /\ ev.target = "t3" /\ ev.state = config.collapsed
    /\ activations["c2"] = 1 /\ data["c2"] = config.visible
    /\ activations["c1"] = 0 /\ data["c1"] = config.collapsed /\ collapsedClass["c1"]
    /\ data["c3"] = config.collapsed /\ collapsedClass["c3"]

\* C8 as stated: with a default key that resolves to no enumerated state
\* (here a key the state map does not hold), initialization throws and no
\* container of the batch gets a marker class.
C8_BadDefaultAbortsInit ==
    (lastInit.batch # {} /\ config.default \notin DOMAIN config) =>
        /\ lastInit.threw
        /\ \A c \in lastInit.batch : ~accordionClass[c] /\ ~collapsedClass[c]
        /\ \A t \in Triggers : ContainerOf(t) \in lastInit.batch => ~triggerClass[t]
        /\ \A k \in Contents : ContainerOf(k) \in lastInit.batch => ~contentClass[k]

\* The handler run recorded in ev was on container p and hist still holds
\* the snapshot taken before it.
HandlerRan(p) == ev.state # "none" /\ p = ContainerOf(ev.target) /\ Len(hist[p]) > 0

\* C9: getState returns the state persisted on the container when one is
\* present and getDefaultState() otherwise, and writes neither the state nor
\* the classes (a run whose handler took no branch left both as they were).
C9_GetStateReadsPersistedOrDefault ==
    \A p \in Containers :
        HandlerRan(p) =>
            /\ ev.state = IF LastSnapshot(p).state # Undefined
                            THEN LastSnapshot(p).state
                            ELSE getDefaultState
            /\ ev.state \notin {config.visible, config.collapsed} =>
                 /\ data[p] = LastSnapshot(p).state
                 /\ collapsedClass[p] = LastSnapshot(p).collapsed

\* C9 witness: a handler run on a container with no persisted state, for which
\* getState returned the default state value.
C9_Witness ==
    /\ HandlerRan("c1")
    /\ LastSnapshot("c1").state = Undefined
    /\ ev.state = config.collapsed

\* C10: every run of the handler leaves the event's default prevented,
\* whichever state the container is in, also when the state is unrecognised
\* or the state lookup throws.
C10_DefaultAlwaysPrevented ==
    ev.state # "none" => ev.defaultPrevented

\* C10 witness: a handler run whose state lookup threw, default prevented.
C10_Witness ==
    /\ ev.state = Threw
    /\ ev.defaultPrevented
    /\ ev.remaining = 0

\* A handler run that read an unrecognised state, default prevented.
C10_WitnessUnrecognised ==
    /\ ev.state = "default"
    /\ ev.defaultPrevented

\* C11: initialization tags every matching trigger of a container of the
\* batch and binds one more handler to each, and a handler run started from
\* any of them toggles the one state of the container the trigger sits in.
C11_EveryTriggerBoundAndToggles ==
    [][/\ inits' # inits =>
            \A t \in Triggers : ContainerOf(t) \in lastInit'.batch =>
                triggerClass'[t] /\ handlers'[t] = handlers[t] + 1
       /\ \A t \in Triggers :
            (ev.remaining > 0 /\ ev.target = t
                /\ data[ContainerOf(t)] \in {config.visible, config.collapsed}) =>
                    /\ data'[ContainerOf(t)] = Opposite(data[ContainerOf(t)])
                    /\ activations'[ContainerOf(t)] = activations[ContainerOf(t)] + 1]_vars

\* C11 witness: both triggers of c1 are tagged and bound, and a run started
\* from the second one, after an earlier run, has toggled c1.
C11_Witness ==
    /\ triggerClass["t1"] /\ triggerClass["t2"]
    /\ handlers["t1"] = 1 /\ handlers["t2"] = 1
    /\ ev.target = "t2" /\ ev.remaining = 0
    /\ activations["c1"] = 2
    /\ ev.state = config.visible
    /\ data["c1"] = config.collapsed

\* The triggers of container c.
TriggersOf(c) == {t \in Triggers : ContainerOf(t) = c}

\* C12: a container without trigger or without content is initialized like
\* any other, without error, to the default state and classes; without
\* trigger its state and class change in initialization steps only; without
\* content a handler run toggles state and class and issues no render call.
C12_MissingStructureIsNoError ==
    [][/\ inits' # inits =>
            /\ ~lastInit'.threw
            /\ \A c \in lastInit'.batch :
                 (TriggersOf(c) = {} \/ ContentsOf(c) = {}) =>
                     /\ accordionClass'[c]
                     /\ config.default \in StateKeys =>
                          /\ data'[c] = DefaultValue
                          /\ collapsedClass'[c] <=> (config.default = "collapsed")
       /\ \A c \in Containers :
            (TriggersOf(c) = {}
                /\ (data'[c] # data[c] \/ collapsedClass'[c] # collapsedClass[c])) =>
                    inits' # inits /\ c \in lastInit'.batch
       /\ \A c \in Containers :
            (ev.remaining > 0 /\ c = ContainerOf(ev.target) /\ ContentsOf(c) = {}
                /\ data[c] \in {config.visible, config.collapsed}) =>
                    /\ data'[c] = Opposite(data[c])
                    /\ collapsedClass'[c] <=> (data'[c] = config.collapsed)
                    /\ rendered' = rendered
                    /\ anim' = anim]_vars

\* C12 witness: c3 (no trigger) holds the default state and classes of its
\* initialization, c2 (no content) has been toggled to Visible by a handler
\* run, and no content element of the other containers was touched by it.
C12_Witness ==
    /\ config = SourceConfig
    /\ ~lastInit.threw
    /\ accordionClass["c3"] /\ data["c3"] = "collapsed" /\ collapsedClass["c3"]
    /\ accordionClass["c2"] /\ activations["c2"] = 1
    /\ data["c2"] = "visible" /\ ~collapsedClass["c2"]
    /\ \A k \in Contents : rendered[k] = "hide(0)"

\* C13: a handler run delivered while an animation is in flight on the
\* container's content is processed at once: it reads the state persisted
\* last, stores the opposite state and hands the event on, as it does with no
\* animation in flight.
C13_InFlightAnimationDoesNotHoldBack ==
    [][\A p \in Containers :
        (ev.remaining > 0 /\ p = ContainerOf(ev.target)
            /\ (\E k \in ContentsOf(p) : anim[k] # "none")
            /\ data[p] \in {config.visible, config.collapsed}) =>
                /\ ev'.state = data[p]
                /\ data'[p] = Opposite(data[p])
                /\ collapsedClass'[p] <=> (data'[p] = config.collapsed)
                /\ ev'.remaining = ev.remaining - 1]_vars

\* C13 witness: two clicks on c1 (one handler each), the second delivered
\* while the animation of the first was in flight; c1 is back in the state
\* the first click found.
C13_Witness ==
    /\ inits = 1 /\ handlers["t1"] = 1 /\ handlers["t2"] = 1
    /\ Len(hist["c1"]) = 2
    /\ ev.remaining = 0 /\ ev.target \in {"t1", "t2"} /\ ev.inflight
    /\ hist["c1"][2].state = Opposite(hist["c1"][1].state)
    /\ data["c1"] = hist["c1"][1].state
    /\ data["c1"] \in {config.visible, config.collapsed}

\* C14: in every transition, initial or animated, the container's state and
\* collapsed class are written before the render call is issued: at each
\* render call the container already holds the state and class of the call.
C14_WritesPrecedeRender ==
    \A k \in Contents :
        rendered[k] # "none" =>
            /\ seen[k].state = IF rendered[k] \in {"show(0)", "slideDown"}
                                 THEN config.visible ELSE config.collapsed
            /\ seen[k].collapsed <=> rendered[k] \in {"hide(0)", "slideUp"}

\* C14 witness: an animated show on c1 and an initial hide on c3, each issued
\* with the container's state and class already written.
C14_Witness ==
    /\ rendered["k1"] = "slideDown"
    /\ seen["k1"] = [state |-> config.visible, collapsed |-> FALSE]
    /\ rendered["k3"] = "hide(0)"
    /\ seen["k3"] = [state |-> config.collapsed, collapsed |-> TRUE]

\* The timed calls of content k that have been issued and not finished.
SlidesPending(k) ==
    (IF anim[k] # "none" THEN 1 ELSE 0)
        + Cardinality({i \in DOMAIN queued[k] : queued[k][i] \in {"slideDown", "slideUp"}})

\* C20: an animated transition cancels the animation in flight before it
\* starts its own, so a content element never has more than one animation
\* pending; the last render call issued to the content of a container that
\* holds a state shows iff the state is visible; and with no animation in
\* flight the content is shown iff the state is visible.
C20_OneAnimationAndIntentMatchesState ==
    \A k \in Contents :
        /\ SlidesPending(k) <= 1
        /\ data[ContainerOf(k)] \in {config.visible, config.collapsed} =>
             /\ rendered[k] \in {"show(0)", "slideDown"}
                    <=> data[ContainerOf(k)] = config.visible
             /\ rendered[k] \in {"hide(0)", "slideUp"}
                    <=> data[ContainerOf(k)] = config.collapsed
             /\ anim[k] = "none" =>
                    /\ queued[k] = <<>>
                    /\ display[k] <=> data[ContainerOf(k)] = config.visible

\* C20 witness: a handler run on c1 came while an animation was in flight and
\* cancelled it; the new animation has finished on k1, which is shown with c1
\* visible, and is still the only one in flight on k2.
C20_Witness ==
    /\ ev.remaining = 0 /\ ev.target \in {"t1", "t2"} /\ ev.inflight
    /\ data["c1"] = config.visible
    /\ anim["k1"] = "none" /\ display["k1"]
    /\ anim["k2"] = "slideDown" /\ queued["k2"] = <<>>

\* C15: an execution of the script throws when jQuery is absent or the plugin
\* name is taken, by another plugin or by an earlier execution of this
\* script, and then leaves the registration as it was; otherwise it registers
\* the plugin.
C15_RegistrationFailsFast ==
    [][scripts' # scripts =>
        IF ~jq \/ plugin # "none"
          THEN lastLoad' = "threw" /\ plugin' = plugin
          ELSE lastLoad' = "registered" /\ plugin' = "accordion"]_vars

\* C15 witness: the script was executed a second time and threw; the plugin
\* registered by the first execution is in place and has initialized c1.
C15_Witness ==
    /\ scripts = 0
    /\ lastLoad = "threw"
    /\ plugin = "accordion"
    /\ accordionClass["c1"]

\* An execution of the script on a page without jQuery, and one on a page
\* where another plugin holds the name: both threw.
C15_WitnessNoJQuery == ~jq /\ lastLoad = "threw" /\ plugin = "none"

C15_WitnessNameTaken == jq /\ lastLoad = "threw" /\ plugin = "other"

\* C16 as stated: of the matching content elements of a container only one,
\* the first match, receives render calls, while all of them are tagged.
C16_OnlyFirstContentRendered ==
    \A c \in Containers :
        accordionClass[c] =>
            /\ \A k \in ContentsOf(c) : contentClass[k]
            /\ Cardinality({k \in ContentsOf(c) : rendered[k] # "none"}) <= 1

\* C16 amended: every matching content element of a container receives the
\* render call of each transition (the same call, the same animation), and
\* all of them are tagged with is-accordion-content.
C16_EveryContentRendered ==
    \A c \in Containers :
        accordionClass[c] =>
            /\ \A k \in ContentsOf(c) : contentClass[k]
            /\ data[c] \in {config.visible, config.collapsed} =>
                 \A k \in ContentsOf(c) : rendered[k] # "none"
            /\ \A k1, k2 \in ContentsOf(c) : rendered[k1] = rendered[k2]

\* C16 witness: both content elements of c1 are tagged and both received the
\* slideDown of a handler run.
C16_Witness ==
    /\ contentClass["k1"] /\ contentClass["k2"]
    /\ rendered["k1"] = "slideDown" /\ rendered["k2"] = "slideDown"
    /\ data["c1"] = config.visible

\* C17 as stated: one click on a trigger toggles the state of its container
\* exactly once, however often the container was initialized before.
C17_OneClickTogglesOnce ==
    \A p \in Containers :
        (HandlerRan(p) /\ ev.remaining = 0
            /\ ev.pre \in {config.visible, config.collapsed}) =>
                data[p] = Opposite(ev.pre)

\* C18 as stated: with a default key that names an enumerated state, the
\* state initialization persists is the value getDefaultState() returns.
C18_InitPersistsDefaultStateValue ==
    \A c \in Containers :
        (accordionClass[c] /\ config.default \in StateKeys) =>
            start[c] = getDefaultState

\* C19: with a default key the state map does not hold, a handler run on a
\* container with no persisted state fails in getState (getDefaultState
\* throws); it leaves state and marker classes as they were, issues no render
\* call and ends the dispatch.
C19_FailedLookupChangesNothing ==
    [][\A p \in Containers :
        (ev.remaining > 0 /\ p = ContainerOf(ev.target)
            /\ config.default \notin DOMAIN config /\ data[p] = Undefined) =>
                /\ ev'.state = Threw
                /\ ev'.remaining = 0
                /\ UNCHANGED <<data, collapsedClass, accordionClass, triggerClass,
                               contentClass, rendered, anim, queued, display>>]_vars

\* C19 witness: a click on a trigger of c1, initialized with the default key
\* 'bogus': the lookup threw, c1 holds no state and no collapsed class, and
\* its content has received no render call.
C19_Witness ==
    /\ config.default = "bogus"
    /\ ev.target = "t1" /\ ev.state = Threw /\ ev.remaining = 0
    /\ accordionClass["c1"] /\ ~collapsedClass["c1"] /\ data["c1"] = Undefined
    /\ rendered["k1"] = "none" /\ rendered["k2"] = "none"

====
